---- MODULE Spec2Model ----
(***************************************************************************)
(* State-machine model of panoramix/functions.py: the negotiation engine   *)
(* (contributions, convergence, sealing), the consensus authorizer, the    *)
(* permission checker and the endpoint cycle.                              *)
(*                                                                         *)
(* The database tables are the variables.  Every view handler is one       *)
(* action; a handler that raises leaves the tables as they were and only   *)
(* records the error in `response`.                                        *)
(***************************************************************************)
EXTENDS Integers, Sequences, FiniteSets, TLC

VARIABLES
    negotiations,   \* models.Negotiation rows, in creation order (id = index)
    contributions,  \* models.Contribution rows, in creation order
    signings,       \* models.Signing rows, in creation order
    peers,          \* models.Peer rows (with their Owner rows)
    endpoints,      \* models.Endpoint rows
    messages,       \* models.Message rows, in creation order
    response        \* what the last handler call returned or raised

vars == <<negotiations, contributions, signings, peers, endpoints, messages, response>>

negVars == <<negotiations, contributions, signings>>
cycleVars == <<peers, endpoints, messages>>

(***************************************************************************)
(* Bounds of the model.                                                    *)
(***************************************************************************)
MaxNegotiations == 1
MaxContributions == 3
MaxTime == 1

Signers == {"A", "B"}

(***************************************************************************)
(* Python helpers.                                                         *)
(***************************************************************************)
\* dict.get(key, default)
Get(d, k, default) == IF k \in DOMAIN d THEN d[k] ELSE default

EmptyDict == [k \in {} |-> k]

\* the elements of a list, as a set
Range(s) == {s[i] : i \in 1..Len(s)}

(***************************************************************************)
(* panoramix.canonical.  A canonical text is a string; here it is the list *)
(* of its <<key, value>> pairs in the order they are written.  A value of  *)
(* one of the keys in DictKeys is itself such a list.  to_canonical writes *)
(* the keys of a dict in sorted order; from_canonical reads the pairs back *)
(* into a dict whatever their order.                                       *)
(***************************************************************************)
KeyOrder == <<"body", "data", "extra", "info", "meta", "negotiation_id",
              "signings", "text", "timestamp">>
DictKeys == {"body"}

RECURSIVE from_canonical(_)
from_canonical(text) ==
    [k \in {text[i][1] : i \in 1..Len(text)} |->
        LET i == CHOOSE j \in 1..Len(text) :
                    /\ text[j][1] = k
                    /\ \A l \in 1..Len(text) : text[l][1] = k => l <= j
        IN  IF k \in DictKeys THEN from_canonical(text[i][2]) ELSE text[i][2]]

SortedKeys(d) == SelectSeq(KeyOrder, LAMBDA k : k \in DOMAIN d)

RECURSIVE to_canonical(_)
to_canonical(d) ==
    LET keys == SortedKeys(d)
    IN  [i \in 1..Len(keys) |->
            <<keys[i], IF keys[i] \in DictKeys THEN to_canonical(d[keys[i]]) ELSE d[keys[i]]>>]

\* utils.hash_string: a digest, taken to be collision-free
hash_string(s) == <<"sha256", s>>

(***************************************************************************)
(* The signature backend.  A signature is the pair of the key that made it *)
(* and the text it was made over; verify returns whether the signature is  *)
(* one over the given text, and the key id it recovers.                    *)
(***************************************************************************)
Sign(signer, text) == [signer |-> signer, text |-> text]

verify(mixnet_data, signature) ==
    [valid |-> signature.text = mixnet_data, key_id |-> signature.signer]

(***************************************************************************)
(* Model values for the columns that are NULL until a negotiation closes.  *)
(***************************************************************************)
NoText == <<>>
NoConsensus == <<>>

OPEN == "OPEN"
DONE == "DONE"

(***************************************************************************)
(* What a handler reports.  err = "" is a normal return; any other value   *)
(* is the message of the exception raised.                                 *)
(***************************************************************************)
Ok == ""
NoResponse == [op |-> "none", err |-> Ok]

(***************************************************************************)
(* The texts the signers of the negotiation engine propose: a body, and a  *)
(* meta dict whose accept flag is true, false or absent.                   *)
(***************************************************************************)
MkText(body, meta) == <<<<"body", body>>, <<"meta", meta>>>>

BodyOne == <<<<"data", [value |-> "one"]>>, <<"info", [operation |-> "create"]>>>>
BodyTwo == <<<<"data", [value |-> "two"]>>, <<"info", [operation |-> "create"]>>>>

TextAccept == MkText(BodyOne, [accept |-> TRUE])
TextRefuse == MkText(BodyOne, [accept |-> FALSE])
TextNoMeta == <<<<"body", BodyOne>>>>
TextOther == MkText(BodyTwo, [accept |-> TRUE])

\* a Python string where a dict is expected
PyStr(s) == [str |-> s]
is_dict(v) == "str" \notin DOMAIN v

\* a text whose meta is a string, not a dict
TextMetaString == MkText(BodyOne, PyStr("accept"))

EngineTexts == {TextAccept, TextRefuse, TextNoMeta, TextOther}

(***************************************************************************)
(* validate_operation                                                      *)
(***************************************************************************)
validate_operation(info, operation, resource) ==
    IF operation /= Get(info, "operation", "None") THEN "Operation is not " \o operation
    ELSE IF resource /= Get(info, "resource", "None") THEN "Resource is not " \o resource
    ELSE Ok

(***************************************************************************)
(* NegotiationView.creation_logic: a new OPEN negotiation with a fresh id. *)
(***************************************************************************)
negotiation_row(id) ==
    [id |-> id, status |-> OPEN, text |-> NoText, timestamp |-> 0,
     consensus |-> NoConsensus]

new_negotiation == negotiation_row(Len(negotiations) + 1)

NegotiationView_creation_logic(info) ==
    LET err == validate_operation(info, "create", "negotiation")
    IN  /\ IF err /= Ok
           THEN /\ response' = [op |-> "negotiation", err |-> err]
                /\ UNCHANGED negotiations
           ELSE /\ negotiations' = Append(negotiations, new_negotiation)
                /\ response' = [op |-> "negotiation", err |-> Ok]
        /\ UNCHANGED <<contributions, signings, cycleVars>>

(***************************************************************************)
(* The negotiation engine.                                                 *)
(***************************************************************************)
\* Negotiation.get_latest_contributions: the rows of the negotiation whose
\* latest flag is set, in creation order
get_latest_contributions(contribs, n) ==
    SelectSeq(contribs, LAMBDA c : c.negotiation = n /\ c.latest)

\* (mutant) the earlier rows of the signer keep their latest flag
clear_latest_skipped(contribs, n, key_id) == contribs

\* line 49: negotiation.contributions.filter(signer_key_id=key_id).update(latest=False)
clear_latest(contribs, n, key_id) ==
    [i \in 1..Len(contribs) |->
        IF contribs[i].negotiation = n /\ contribs[i].signer_key_id = key_id
        THEN [contribs[i] EXCEPT !.latest = FALSE]
        ELSE contribs[i]]

\* lines 50-53: models.Contribution.objects.create(latest=True, ...)
new_contribution(n, text, key_id, signature) ==
    [negotiation |-> n, text |-> text, signer_key_id |-> key_id,
     signature |-> signature, latest |-> TRUE]

\* (mutant) the status of the negotiation is not looked at
contribute_error_any_status(negotiation, data) ==
    LET v == verify(data.text, data.signature)
    IN  IF ~v.valid THEN "contribution's signature is not valid"
        ELSE IF data.signer_key_id /= v.key_id THEN "signer_key_id mismatch"
        ELSE Ok

\* (mutant) the signature is not verified and the claimed signer not compared
contribute_error_unverified(negotiation, data) ==
    IF negotiation.status /= OPEN THEN "neg is not open" ELSE Ok

\* lines 38-47: the checks of contribute_to_negotiation, in order
contribute_error(negotiation, data) ==
    LET v == verify(data.text, data.signature)
    IN  IF negotiation.status /= OPEN THEN "neg is not open"
        ELSE IF ~v.valid THEN "contribution's signature is not valid"
        ELSE IF data.signer_key_id /= v.key_id THEN "signer_key_id mismatch"
        ELSE Ok

\* (mutant) one text is enough, whatever its accept flag
must_close_unaccepted(latests) ==
    Cardinality({latests[i].text : i \in 1..Len(latests)}) = 1

\* lines 60-66: whether check_close_negotiation closes the negotiation
must_close(latests) ==
    LET text_set == {latests[i].text : i \in 1..Len(latests)}
    IN  /\ Cardinality(text_set) = 1
        /\ LET text == CHOOSE t \in text_set : TRUE
               unpacked_text == from_canonical(text)
               meta == Get(unpacked_text, "meta", EmptyDict)
           IN  Get(meta, "accept", FALSE)

\* lines 60-65: meta.get raises AttributeError when the one text of the
\* latest contributions carries a meta that is not a dict
check_close_error(latests) ==
    LET text_set == {latests[i].text : i \in 1..Len(latests)}
    IN  IF /\ Cardinality(text_set) = 1
           /\ ~is_dict(Get(from_canonical(CHOOSE t \in text_set : TRUE), "meta", EmptyDict))
        THEN "AttributeError"
        ELSE Ok

\* (mutant) the rows written before an exception stay written
not_rolled_back(before, after) == after

\* the views of panoramix.skeleton run a handler in one database
\* transaction: when the handler raises, the rows are as before the request
rolled_back(before, after) == before

get_text(contribs) == CHOOSE t \in {contribs[i].text : i \in 1..Len(contribs)} : TRUE

\* the rows mk_signings creates, one per contribution handed to it
signing_rows(n, contribs) ==
    [i \in 1..Len(contribs) |->
        [negotiation |-> n, signer_key_id |-> contribs[i].signer_key_id,
         signature |-> contribs[i].signature]]

\* the dict mk_signings returns: a later contribution of a signer overwrites
\* an earlier one
signings_dict(contribs) ==
    [s \in {contribs[i].signer_key_id : i \in 1..Len(contribs)} |->
        LET i == CHOOSE j \in 1..Len(contribs) :
                    /\ contribs[j].signer_key_id = s
                    /\ \A l \in 1..Len(contribs) : contribs[l].signer_key_id = s => l <= j
        IN  contribs[i].signature]

\* _close_negotiation: the negotiation row it saves
closed_negotiation(negotiation, contribs, now) ==
    LET text == get_text(contribs)
        hashable == [timestamp |-> now, negotiation_id |-> negotiation.id,
                     text |-> text, signings |-> signings_dict(contribs)]
    IN  [negotiation EXCEPT !.text = text,
                            !.timestamp = now,
                            !.consensus = hash_string(to_canonical(hashable)),
                            !.status = DONE]

\* contribute_to_negotiation with check_close_negotiation, on negotiation n;
\* clock is the set of times get_now() may return when the negotiation closes
contribute_to_negotiation(n, data, clock) ==
    LET negotiation == negotiations[n]
        err == contribute_error(negotiation, data)
        key_id == verify(data.text, data.signature).key_id
        contribs == Append(clear_latest(contributions, n, key_id),
                           new_contribution(n, data.text, key_id, data.signature))
        latests == get_latest_contributions(contribs, n)
    IN  IF err /= Ok
        THEN /\ response' = [op |-> "contribution", err |-> err, negotiation |-> n]
             /\ UNCHANGED negVars
        ELSE IF check_close_error(latests) /= Ok
        THEN /\ response' = [op |-> "contribution", err |-> check_close_error(latests),
                              negotiation |-> n]
             /\ contributions' = rolled_back(contributions, contribs)
             /\ UNCHANGED <<negotiations, signings>>
        ELSE /\ contributions' = contribs
             /\ IF must_close(latests)
                THEN /\ \E now \in clock :
                            negotiations' = [negotiations EXCEPT ![n] =
                                                closed_negotiation(negotiation, latests, now)]
                     /\ signings' = signings \o signing_rows(n, latests)
                ELSE UNCHANGED <<negotiations, signings>>
             /\ response' = [op |-> "contribution", err |-> Ok, negotiation |-> n,
                              contrib |-> contribs[Len(contribs)]]

\* ContributionView.creation_logic: the negotiation row is read for update,
\* so the whole handler is one step
ContributionView_creation_logic(info, data, clock) ==
    LET err == validate_operation(info, "create", "contribution")
        n == data.negotiation
    IN  /\ IF err /= Ok
           THEN /\ response' = [op |-> "contribution", err |-> err, negotiation |-> n]
                /\ UNCHANGED negVars
           ELSE IF n \notin 1..Len(negotiations)
           THEN /\ response' = [op |-> "contribution", err |-> "Http404", negotiation |-> n]
                /\ UNCHANGED negVars
           ELSE contribute_to_negotiation(n, data, clock)
        /\ UNCHANGED cycleVars

(***************************************************************************)
(* The negotiation engine on its own: negotiations are created and signers *)
(* contribute texts, with signatures that may be over another text or      *)
(* claimed for another signer.                                             *)
(***************************************************************************)
GoodInfo(operation, resource) == [operation |-> operation, resource |-> resource]
BadInfos(operation, resource) ==
    {[operation |-> "delete", resource |-> resource], [operation |-> operation]}

\* a signer's contribution of a text, signed by that signer over that text
Contribution(n, text, signer) ==
    [negotiation |-> n, text |-> text, signature |-> Sign(signer, text),
     signer_key_id |-> signer]

\* contributions that must be refused: a signature made over another text,
\* and a signature claimed for a signer who did not make it
BadContributions(n, texts) ==
    {[negotiation |-> n, text |-> t, signature |-> Sign("A", u), signer_key_id |-> "A"] :
        t \in {TextAccept}, u \in texts \ {TextAccept}}
    \cup {[negotiation |-> n, text |-> t, signature |-> Sign("B", t), signer_key_id |-> "A"] :
        t \in {TextAccept}}

Init ==
    /\ negotiations = <<>>
    /\ contributions = <<>>
    /\ signings = <<>>
    /\ peers = <<>>
    /\ endpoints = <<>>
    /\ messages = <<>>
    /\ response = NoResponse

CreateNegotiation ==
    \E info \in {GoodInfo("create", "negotiation")} \cup BadInfos("create", "negotiation") :
        /\ Len(negotiations) < MaxNegotiations
        /\ NegotiationView_creation_logic(info)

Contribute ==
    \E n \in 1..MaxNegotiations, text \in EngineTexts, signer \in Signers :
        /\ ContributionView_creation_logic(GoodInfo("create", "contribution"),
                                           Contribution(n, text, signer), 1..MaxTime)
        /\ Len(contributions') <= MaxContributions

ContributeRefused ==
    \/ \E n \in 1..MaxNegotiations : \E data \in BadContributions(n, EngineTexts) :
            ContributionView_creation_logic(GoodInfo("create", "contribution"), data,
                                            1..MaxTime)
    \/ \E info \in BadInfos("create", "contribution") :
            ContributionView_creation_logic(info, Contribution(1, TextAccept, "A"), 1..MaxTime)

\* a contribution whose text has a string for its meta: stored like any
\* other while the latest texts differ, an exception once they are one
ContributeMetaString ==
    \E n \in 1..MaxNegotiations :
        /\ ContributionView_creation_logic(GoodInfo("create", "contribution"),
                                           Contribution(n, TextMetaString, "A"), 1..MaxTime)
        /\ Len(contributions') <= MaxContributions

Next == CreateNegotiation \/ Contribute \/ ContributeRefused \/ ContributeMetaString

Spec == Init /\ [][Next]_vars

(***************************************************************************)
(* The consensus authorizer and the permission checker.                    *)
(***************************************************************************)
\* Python's None where a dict is expected
None == [None |-> TRUE]

T_STRUCTURAL == "structural"

\* the order of key ids under Python's sorted()
KeyIdOrder == <<"A", "B", "C">>

\* (mutant) the lists are compared as they come, unsorted
sorted_as_given(keys) == keys

\* sorted(keys): the list's elements in key-id order, repeated entries kept
sorted(keys) ==
    LET count(k) == Cardinality({i \in 1..Len(keys) : keys[i] = k})
        RECURSIVE build(_)
        build(j) ==
            IF j > Len(KeyIdOrder) THEN <<>>
            ELSE [i \in 1..count(KeyIdOrder[j]) |-> KeyIdOrder[j]] \o build(j + 1)
    IN  build(1)

\* dict.keys(): the keys of a dict as a list, in some order
keys_of(d) == SelectSeq(KeyIdOrder, LAMBDA k : k \in DOMAIN d)

\* Negotiation.to_consensus_dict: the sealed text and the signer -> signature
\* mapping of the negotiation's Signing rows
to_consensus_dict(negotiation) ==
    LET rows == SelectSeq(signings, LAMBDA g : g.negotiation = negotiation.id)
    IN  [text |-> negotiation.text,
         signings |-> [k \in {rows[i].signer_key_id : i \in 1..Len(rows)} |->
                          LET i == CHOOSE j \in 1..Len(rows) : rows[j].signer_key_id = k
                          IN  rows[i].signature]]

\* retrieve_consensus: the negotiations sealed with that consensus hash
consensus_rows(consensus_id) ==
    {n \in 1..Len(negotiations) : negotiations[n].consensus = consensus_id}

\* assert_consensus_signed
assert_consensus_signed(owners, signing_dict) ==
    IF DOMAIN signing_dict = {} THEN "No signings found"
    ELSE IF \E i \in 1..Len(owners) : owners[i] \notin DOMAIN signing_dict
    THEN "owner has not signed"
    ELSE Ok

\* (mutant) the requester is not looked at
check_permission_any_requester(peer_id, owners, signing_dict, request_peer_id) ==
    IF owners /= <<>>
    THEN assert_consensus_signed(owners, signing_dict)
    ELSE assert_consensus_signed(<<request_peer_id>>, signing_dict)

\* check_permission
check_permission(peer_id, owners, signing_dict, request_peer_id) ==
    IF owners /= <<>>
    THEN IF request_peer_id \notin Range(owners)
         THEN "request user is not a peer owner"
         ELSE assert_consensus_signed(owners, signing_dict)
    ELSE IF request_peer_id /= peer_id
         THEN "request user cannot operate on peer"
         ELSE assert_consensus_signed(<<request_peer_id>>, signing_dict)

\* get_body_and_meta
get_body_and_meta(consensus) ==
    LET unpacked_text == from_canonical(consensus.text)
        body == Get(unpacked_text, "body", EmptyDict)
    IN  [body |-> to_canonical(body), meta |-> Get(unpacked_text, "meta", EmptyDict)]

\* check_all_signed
check_all_signed(signing_dict, meta) ==
    LET signers == Get(meta, "signers", <<>>)
        actual_signers == keys_of(signing_dict)
    IN  IF signers /= <<>> /\ sorted(signers) /= sorted(actual_signers)
        THEN "no proper set of signatures"
        ELSE Ok

\* (mutant) any two bodies pass
check_bodies_equal_skipped(expected_body, consensus_body) == Ok

\* check_bodies_equal
check_bodies_equal(expected_body, consensus_body) ==
    IF expected_body /= consensus_body THEN "different consensus texts" ELSE Ok

\* check_accepted
check_accepted(meta) ==
    IF ~Get(meta, "accept", FALSE) THEN "not an accepted text" ELSE Ok

\* handle_consensus: the error raised, or the signings returned
handle_consensus(expected_body, consensus_id) ==
    LET found == consensus_rows(consensus_id)
    IN  IF found = {} THEN [err |-> "Http404"]
        ELSE IF Cardinality(found) > 1 THEN [err |-> "MultipleObjectsReturned"]
        ELSE LET consensus == to_consensus_dict(negotiations[CHOOSE n \in found : TRUE])
                 bm == get_body_and_meta(consensus)
                 e1 == check_bodies_equal(expected_body, bm.body)
                 e2 == check_accepted(bm.meta)
                 e3 == check_all_signed(consensus.signings, bm.meta)
             IN  IF e1 /= Ok THEN [err |-> e1]
                 ELSE IF e2 /= Ok THEN [err |-> e2]
                 ELSE IF e3 /= Ok THEN [err |-> e3]
                 ELSE [err |-> Ok, signings |-> consensus.signings]

\* get_requested_consensus_body
get_requested_consensus_body(request_data) ==
    to_canonical([data |-> Get(request_data, "data", None),
                  info |-> Get(request_data, "info", None)])

\* require_by_consensus; a consensus_type other than structural leaves
\* consensus_body unbound, and the return statement raises
require_by_consensus(request_data) ==
    LET by_consensus == Get(request_data, "by_consensus", EmptyDict)
    IN  IF DOMAIN by_consensus = {}
        THEN [err |-> "Creating an endpoint without consensus is not allowed."]
        ELSE IF "consensus_id" \notin DOMAIN by_consensus
        THEN [err |-> "consensus is missing"]
        ELSE IF Get(by_consensus, "consensus_type", "None") /= T_STRUCTURAL
        THEN [err |-> "UnboundLocalError"]
        ELSE [err |-> Ok, consensus_id |-> by_consensus.consensus_id,
              consensus_body |-> get_requested_consensus_body(request_data)]

(***************************************************************************)
(* PeerView                                                                *)
(***************************************************************************)
READY == "READY"

\* PeerView.perform_create; owners are given by their owner_key_id
peer_row(data, consensus_id) ==
    [peer_id |-> data.peer_id, status |-> data.status, key_data |-> data.key_data,
     owners |-> data.owners, consensus_log |-> <<consensus_id>>]

PeerView_creation_logic(request_user, request_data) ==
    LET data == Get(request_data, "data", EmptyDict)
        info == Get(request_data, "info", EmptyDict)
        e1 == validate_operation(info, "create", "peer")
        rc == require_by_consensus(request_data)
        hc == handle_consensus(rc.consensus_body, rc.consensus_id)
        owners == Get(data, "owners", <<>>)
        refuse(err) ==
            /\ response' = [op |-> "peer", err |-> err, request_data |-> request_data,
                            request_user |-> request_user]
            /\ UNCHANGED peers
    IN  /\ IF e1 /= Ok THEN refuse(e1)
           ELSE IF rc.err /= Ok THEN refuse(rc.err)
           ELSE IF hc.err /= Ok THEN refuse(hc.err)
           ELSE IF "peer_id" \notin DOMAIN data THEN refuse("KeyError")
           ELSE IF Get(data, "status", "None") /= READY THEN refuse("unexpected status")
           ELSE IF check_permission(data.peer_id, owners, hc.signings, request_user) /= Ok
           THEN refuse(check_permission(data.peer_id, owners, hc.signings, request_user))
           ELSE IF "owners" \notin DOMAIN data \/ "key_data" \notin DOMAIN data
           THEN refuse("KeyError")
           ELSE IF \E i \in 1..Len(peers) : peers[i].peer_id = data.peer_id
           THEN refuse("IntegrityError")
           ELSE /\ peers' = Append(peers, peer_row(data, rc.consensus_id))
                /\ response' = [op |-> "peer", err |-> Ok, request_data |-> request_data,
                                request_user |-> request_user, signings |-> hc.signings]
        /\ UNCHANGED <<negVars, endpoints, messages>>

(***************************************************************************)
(* The endpoint cycle.                                                     *)
(***************************************************************************)
CLOSED == "CLOSED"
PROCESSED == "PROCESSED"
FULL == "FULL"

INBOX == "INBOX"
ACCEPTED == "ACCEPTED"
PROCESSBOX == "PROCESSBOX"
OUTBOX == "OUTBOX"

NoHash == <<>>

\* hash_message: the digest of text, sender and recipient put end to end
hash_message(text, sender, recipient) == hash_string(text \o sender \o recipient)

\* the messages of the model, and a hash no message has
MessageOne == [text |-> "one", sender |-> "s", recipient |-> "r"]
MessageTwo == [text |-> "two", sender |-> "s", recipient |-> "r"]
HashOne == hash_message(MessageOne.text, MessageOne.sender, MessageOne.recipient)
HashTwo == hash_message(MessageTwo.text, MessageTwo.sender, MessageTwo.recipient)
HashNone == hash_message("none", "s", "r")

\* the order of the digests under Python's sorted()
HashOrder == <<HashNone, HashOne, HashTwo>>

\* (mutant) the hashes as they were submitted, repeated entries kept
hashes_as_given(msg_hashes) == msg_hashes

\* line 379: sorted(set(msg_hashes))
sorted_set(msg_hashes) == SelectSeq(HashOrder, LAMBDA h : h \in Range(msg_hashes))

\* compute_messages_hash: the digest of the sorted distinct hashes put end to end
compute_messages_hash(msg_hashes) == hash_string(sorted_set(msg_hashes))

\* the row of the endpoint with that id, or 0
endpoint_index(endpoint_id) ==
    IF \E e \in 1..Len(endpoints) : endpoints[e].endpoint_id = endpoint_id
    THEN CHOOSE e \in 1..Len(endpoints) : endpoints[e].endpoint_id = endpoint_id
    ELSE 0

\* the row of the peer with that id, or 0
peer_index(peer_id) ==
    IF \E i \in 1..Len(peers) : peers[i].peer_id = peer_id
    THEN CHOOSE i \in 1..Len(peers) : peers[i].peer_id = peer_id
    ELSE 0

\* (mutant) the first consensus id the endpoint logged
get_first_consensus_id(endpoint) == endpoint.consensus_log[1]

\* Endpoint.get_last_consensus_id
get_last_consensus_id(endpoint) == endpoint.consensus_log[Len(endpoint.consensus_log)]

\* (mutant) the consensus id is recorded, but not as the last one
log_consensus_first(endpoint, consensus_id) ==
    [endpoint EXCEPT !.consensus_log = <<consensus_id>> \o @]

\* Endpoint.log_consensus
log_consensus(endpoint, consensus_id) ==
    [endpoint EXCEPT !.consensus_log = Append(@, consensus_id)]

\* (mutant) the box of the messages is not looked at
selected_messages_any_box(message_hashes, endpoint_id, box) ==
    {i \in 1..Len(messages) :
        /\ messages[i].message_hash \in Range(message_hashes)
        /\ messages[i].endpoint_id = endpoint_id}

\* lines 395-398 and 420-423: models.Message.objects.filter(message_hash__in=...,
\* endpoint_id=..., box=...)
selected_messages(message_hashes, endpoint_id, box) ==
    {i \in 1..Len(messages) :
        /\ messages[i].message_hash \in Range(message_hashes)
        /\ messages[i].endpoint_id = endpoint_id
        /\ messages[i].box = box}

\* lines 393 and 418: [d["hash"] for d in message_hashes]
hashes_of(message_hashes) == [i \in 1..Len(message_hashes) |-> message_hashes[i].hash]

\* close_endpoint: the error raised, or the endpoint row saved and the
\* messages moved to ACCEPTED
close_endpoint(endpoint, data) ==
    LET message_hashes == hashes_of(Get(data, "message_hashes", <<>>))
        message_hashes_count == Len(message_hashes)
        selected_inbox_messages ==
            selected_messages(message_hashes, endpoint.endpoint_id, INBOX)
        inbox_count == Cardinality(selected_inbox_messages)
    IN  IF endpoint.status \notin {OPEN, FULL} THEN [err |-> "wrong current state"]
        ELSE IF message_hashes_count /= inbox_count THEN [err |-> "message count mismatch"]
        ELSE IF inbox_count < endpoint.size_min THEN [err |-> "Didn't reach min size"]
        ELSE IF inbox_count > endpoint.size_max THEN [err |-> "Too many messages"]
        ELSE [err |-> Ok,
              endpoint |-> [endpoint EXCEPT !.inbox_hash = compute_messages_hash(message_hashes),
                                            !.status = CLOSED],
              moved |-> selected_inbox_messages, box |-> ACCEPTED]

\* record_endpoint_process: the error raised, or the endpoint row saved and
\* the messages moved to OUTBOX
record_endpoint_process(endpoint, data) ==
    LET process_proof == Get(data, "process_proof", "None")
        message_hashes == hashes_of(Get(data, "message_hashes", <<>>))
        message_hashes_count == Len(message_hashes)
        processed_messages ==
            selected_messages(message_hashes, endpoint.endpoint_id, PROCESSBOX)
        count == Cardinality(processed_messages)
    IN  IF message_hashes_count /= count THEN [err |-> "message count mismatch"]
        ELSE [err |-> Ok,
              endpoint |-> [endpoint EXCEPT !.process_proof = process_proof,
                                            !.outbox_hash = compute_messages_hash(message_hashes),
                                            !.status = PROCESSED],
              moved |-> processed_messages, box |-> OUTBOX]

\* apply_transition
apply_transition(endpoint, data, consensus_id) ==
    LET requested_status == Get(data, "status", "None")
        done == IF requested_status = CLOSED THEN close_endpoint(endpoint, data)
                ELSE IF requested_status = PROCESSED THEN record_endpoint_process(endpoint, data)
                ELSE [err |-> "invalid status"]
    IN  IF done.err /= Ok THEN done
        ELSE [done EXCEPT !.endpoint = log_consensus(@, consensus_id)]

\* EndpointView.partial_update_logic on the endpoint row e, which the view
\* has read for update
EndpointView_partial_update_logic(request_user, request_data, e) ==
    LET endpoint == endpoints[e]
        data == Get(request_data, "data", EmptyDict)
        info == Get(request_data, "info", EmptyDict)
        e1 == validate_operation(info, "partial_update", "endpoint")
        rc == require_by_consensus(request_data)
        hc == handle_consensus(rc.consensus_body, rc.consensus_id)
        p == peer_index(endpoint.peer_id)
        e2 == check_permission(endpoint.peer_id, peers[p].owners, hc.signings, request_user)
        done == apply_transition(endpoint, data, rc.consensus_id)
        refuse(err) ==
            /\ response' = [op |-> "endpoint_update", err |-> err, endpoint |-> e,
                            request_data |-> request_data, request_user |-> request_user]
            /\ UNCHANGED <<endpoints, messages>>
    IN  /\ IF e1 /= Ok THEN refuse(e1)
           ELSE IF rc.err /= Ok THEN refuse(rc.err)
           ELSE IF "on_last_consensus_id" \notin DOMAIN info
           THEN refuse("cannot update endpoint without reference to last consensus id")
           ELSE IF "id" \notin DOMAIN info THEN refuse("KeyError")
           ELSE IF endpoint.endpoint_id /= info.id THEN refuse("endpoint_id mismatch")
           ELSE IF get_last_consensus_id(endpoint) /= info.on_last_consensus_id
           THEN refuse("condition on consensus_id failed")
           ELSE IF hc.err /= Ok THEN refuse(hc.err)
           ELSE IF p = 0 THEN refuse("Http404")
           ELSE IF peers[p].status /= READY THEN refuse("peer is not in state READY")
           ELSE IF e2 /= Ok THEN refuse(e2)
           ELSE IF done.err /= Ok THEN refuse(done.err)
           ELSE /\ endpoints' = [endpoints EXCEPT ![e] = done.endpoint]
                /\ messages' = [i \in 1..Len(messages) |->
                                    IF i \in done.moved
                                    THEN [messages[i] EXCEPT !.box = done.box]
                                    ELSE messages[i]]
                /\ response' = [op |-> "endpoint_update", err |-> Ok, endpoint |-> e,
                                request_data |-> request_data, request_user |-> request_user]
        /\ UNCHANGED <<negVars, peers>>

\* EndpointView.perform_create
endpoint_row(data, consensus_id) ==
    [endpoint_id |-> data.endpoint_id, peer_id |-> data.peer_id, status |-> data.status,
     size_min |-> data.size_min, size_max |-> data.size_max,
     inbox_hash |-> NoHash, outbox_hash |-> NoHash, process_proof |-> "None",
     consensus_log |-> <<consensus_id>>]

\* EndpointView.creation_logic
EndpointView_creation_logic(request_user, request_data) ==
    LET data == Get(request_data, "data", EmptyDict)
        info == Get(request_data, "info", EmptyDict)
        e1 == validate_operation(info, "create", "endpoint")
        rc == require_by_consensus(request_data)
        hc == handle_consensus(rc.consensus_body, rc.consensus_id)
        p == peer_index(data.peer_id)
        e2 == check_permission(data.peer_id, peers[p].owners, hc.signings, request_user)
        refuse(err) ==
            /\ response' = [op |-> "endpoint", err |-> err, request_data |-> request_data,
                            request_user |-> request_user]
            /\ UNCHANGED endpoints
    IN  /\ IF e1 /= Ok THEN refuse(e1)
           ELSE IF rc.err /= Ok THEN refuse(rc.err)
           ELSE IF hc.err /= Ok THEN refuse(hc.err)
           ELSE IF "peer_id" \notin DOMAIN data THEN refuse("KeyError")
           ELSE IF p = 0 THEN refuse("Http404")
           ELSE IF peers[p].status /= READY THEN refuse("peer is not in state READY")
           ELSE IF e2 /= Ok THEN refuse(e2)
           ELSE IF Get(data, "status", "None") /= OPEN THEN refuse("unexpected status")
           ELSE IF endpoint_index(data.endpoint_id) /= 0 THEN refuse("IntegrityError")
           ELSE /\ endpoints' = Append(endpoints, endpoint_row(data, rc.consensus_id))
                /\ response' = [op |-> "endpoint", err |-> Ok, request_data |-> request_data,
                                request_user |-> request_user]
        /\ UNCHANGED <<negVars, peers, messages>>

\* check_is_owner
check_is_owner(endpoint, request_user_id) ==
    \/ endpoint.peer_id = request_user_id
    \/ LET p == peer_index(endpoint.peer_id)
       IN  p /= 0 /\ request_user_id \in Range(peers[p].owners)

\* check_cycle_is_open
check_cycle_is_open(endpoint) ==
    IF endpoint.status /= OPEN THEN "Cycle is not open" ELSE Ok

\* check_cycle_can_process
check_cycle_can_process(endpoint) ==
    IF endpoint.status /= CLOSED THEN "Cycle is not closed" ELSE Ok

\* (mutant) the status of the endpoint is not looked at
admission_error_any_status(endpoint, box, request_user) ==
    IF box \in {INBOX, PROCESSBOX} THEN Ok ELSE "can't post to box"

\* lines 458-465: the box checks of MessageView.creation_logic; what
\* check_is_owner returns is not used
admission_error(endpoint, box, request_user) ==
    IF box = INBOX THEN check_cycle_is_open(endpoint)
    ELSE IF box = PROCESSBOX THEN check_cycle_can_process(endpoint)
    ELSE "can't post to box"

\* MessageView.perform_create: the row created
message_row(data) ==
    [sender |-> data.sender, recipient |-> data.recipient, text |-> data.text,
     message_hash |-> hash_message(data.text, data.sender, data.recipient),
     endpoint_id |-> data.endpoint_id, box |-> data.box]

\* MessageView.creation_logic; the endpoint row is read for update
MessageView_creation_logic(request_user, request_data) ==
    LET data == Get(request_data, "data", EmptyDict)
        info == Get(request_data, "info", EmptyDict)
        e1 == validate_operation(info, "create", "message")
        e == endpoint_index(Get(data, "endpoint_id", "None"))
        box == Get(data, "box", "None")
        e2 == admission_error(endpoints[e], box, request_user)
        refuse(err) ==
            /\ response' = [op |-> "message", err |-> err, request_data |-> request_data,
                            request_user |-> request_user]
            /\ UNCHANGED messages
    IN  /\ IF e1 /= Ok THEN refuse(e1)
           ELSE IF e = 0 THEN refuse("Http404")
           ELSE IF e2 /= Ok THEN refuse(e2)
           ELSE IF /\ "message_hash" \in DOMAIN data
                   /\ data.message_hash /= hash_message(data.text, data.sender, data.recipient)
           THEN refuse("hash mismatch")
           ELSE /\ messages' = Append(messages, message_row(data))
                /\ response' = [op |-> "message", err |-> Ok, request_data |-> request_data,
                                request_user |-> request_user]
        /\ UNCHANGED <<negVars, peers, endpoints>>

(***************************************************************************)
(* Properties of the negotiation engine (specification Spec).              *)
(***************************************************************************)
ContributionsOf(contribs, n) == SelectSeq(contribs, LAMBDA c : c.negotiation = n)
SigningsOf(sigs, n) == SelectSeq(sigs, LAMBDA g : g.negotiation = n)

\* C1: a negotiation is sealed at most once.  Its status only ever changes
\* from OPEN to DONE; an OPEN negotiation has no Signing rows; and once it is
\* DONE every contribute call on it is refused and its row (text, consensus
\* hash, timestamp), its Signing rows and its Contribution rows stay as they
\* are in every later step.
C1_SealedOnce ==
    [][\A n \in 1..Len(negotiations) :
        /\ negotiations'[n].status /= negotiations[n].status
              => negotiations[n].status = OPEN /\ negotiations'[n].status = DONE
        /\ negotiations[n].status = OPEN => SigningsOf(signings, n) = <<>>
        /\ negotiations[n].status = DONE =>
              /\ negotiations'[n] = negotiations[n]
              /\ SigningsOf(signings', n) = SigningsOf(signings, n)
              /\ ContributionsOf(contributions', n) = ContributionsOf(contributions, n)
              /\ (response'.op = "contribution" /\ response'.negotiation = n)
                    => response'.err /= Ok]_vars

\* C1 witness: a contribute call on a sealed negotiation has just been refused.
C1_Witness ==
    /\ response.op = "contribution"
    /\ response.err = "neg is not open"
    /\ negotiations[response.negotiation].status = DONE
    /\ SigningsOf(signings, response.negotiation) /= <<>>

LatestRows(n, s) ==
    {i \in 1..Len(contributions) :
        /\ contributions[i].negotiation = n
        /\ contributions[i].signer_key_id = s
        /\ contributions[i].latest}

\* C2: in every state each signer has at most one latest contribution in each
\* negotiation; right after a successful contribute the signer's only latest
\* row is the one just inserted; and no step deletes or rewrites an earlier
\* row other than by clearing its latest flag.
C2_OneLatestPerSigner ==
    /\ [](\A n \in 1..Len(negotiations) : \A s \in Signers :
            Cardinality(LatestRows(n, s)) <= 1)
    /\ []((response.op = "contribution" /\ response.err = Ok) =>
            /\ contributions[Len(contributions)] = response.contrib
            /\ LatestRows(response.negotiation, response.contrib.signer_key_id)
                    = {Len(contributions)})
    /\ [][/\ Len(contributions') >= Len(contributions)
          /\ \A i \in 1..Len(contributions) :
                \/ contributions'[i] = contributions[i]
                \/ contributions'[i] = [contributions[i] EXCEPT !.latest = FALSE]]_vars

\* C2 witness: a signer has contributed twice to a negotiation; the earlier
\* row is still there, no longer latest.
C2_Witness ==
    /\ response.op = "contribution" /\ response.err = Ok
    /\ \E i \in 1..Len(contributions) :
            /\ i < Len(contributions)
            /\ contributions[i].negotiation = response.negotiation
            /\ contributions[i].signer_key_id = response.contrib.signer_key_id
            /\ ~contributions[i].latest

\* the texts of the engine whose meta.accept is true
AcceptedTexts == {TextAccept, TextOther}

\* the text a signer proposed last in negotiation n (by row order)
LastTextOf(n, s) ==
    LET rows == {i \in 1..Len(contributions) :
                    contributions[i].negotiation = n /\ contributions[i].signer_key_id = s}
    IN  contributions[CHOOSE i \in rows : \A j \in rows : j <= i].text

Contributors(n) ==
    {contributions[i].signer_key_id : i \in {j \in 1..Len(contributions) :
                                                contributions[j].negotiation = n}}

Unanimous(n, text) ==
    /\ Contributors(n) /= {}
    /\ \A s \in Contributors(n) : LastTextOf(n, s) = text

\* C3: right after a successful contribute, the negotiation is DONE exactly
\* when every signer that has contributed proposed the same text last and
\* that text's meta.accept is true; the sealed text is then that text.
\* Otherwise the negotiation is still OPEN.
C3_ClosesIffUnanimousAccept ==
    (response.op = "contribution" /\ response.err = Ok) =>
        LET n == response.negotiation
        IN  /\ negotiations[n].status = DONE
                <=> \E text \in AcceptedTexts : Unanimous(n, text)
            /\ negotiations[n].status = DONE => Unanimous(n, negotiations[n].text)
            /\ negotiations[n].status /= DONE => negotiations[n].status = OPEN

\* C3 witness: two signers converged on an accepted text after one of them
\* had proposed something else, and the negotiation is sealed with that text.
C3_Witness ==
    /\ response.op = "contribution" /\ response.err = Ok
    /\ negotiations[response.negotiation].status = DONE
    /\ Contributors(response.negotiation) = Signers
    /\ Len(contributions) > 2
    /\ negotiations[response.negotiation].text = TextOther

\* C3, the other way: signers have contributed, the last call succeeded, and
\* the negotiation stays open because the texts differ.
C3_WitnessOpen ==
    /\ response.op = "contribution" /\ response.err = Ok
    /\ negotiations[response.negotiation].status = OPEN
    /\ \A s \in Signers : s \in Contributors(response.negotiation)
                            /\ LastTextOf(response.negotiation, s) \in AcceptedTexts

(***************************************************************************)
(* The consensus authorizer and the permission checker on their own        *)
(* (specification SpecAuth).  The database holds one negotiation that the  *)
(* engine has sealed: its signers contributed one accepted text, in some   *)
(* order.  The sealed text is the body of a peer creation, written by its  *)
(* signers in any key order, with or without a meta.signers list.          *)
(***************************************************************************)
PeerData == [peer_id |-> "A", owners |-> <<"A", "B">>, status |-> READY, key_data |-> "key"]
PeerDataNoOwners == [peer_id |-> "A", owners |-> <<>>, status |-> READY, key_data |-> "key"]
PeerDataShort == [peer_id |-> "A", owners |-> <<"A", "B">>, status |-> READY]
PeerInfo == GoodInfo("create", "peer")
PeerInfoOther == [operation |-> "create", resource |-> "peer", id |-> "A"]

\* the bodies a sealed text may carry
AuthBodies ==
    {<<<<"data", PeerData>>, <<"info", PeerInfo>>>>,
     <<<<"info", PeerInfo>>, <<"data", PeerData>>>>,
     <<<<"data", PeerDataNoOwners>>, <<"info", PeerInfo>>>>,
     <<<<"data", PeerDataShort>>, <<"info", PeerInfo>>>>,
     <<<<"data", PeerData>>>>,
     <<<<"data", PeerData>>, <<"extra", PeerInfo>>, <<"info", PeerInfo>>>>}

AuthMetas ==
    {[accept |-> TRUE]}
    \cup {[accept |-> TRUE, signers |-> l] :
            l \in {<<>>, <<"A">>, <<"A", "B">>, <<"B", "A">>, <<"A", "A", "B">>,
                   <<"A", "B", "C">>}}

AuthTexts ==
    {MkText(b, [accept |-> TRUE]) : b \in AuthBodies}
    \cup {MkText(b, m) : b \in {<<<<"data", PeerData>>, <<"info", PeerInfo>>>>},
                         m \in AuthMetas}
    \cup {<<<<"meta", m>>>> : m \in {[accept |-> TRUE]}}

SignerOrders == {<<"A">>, <<"B">>, <<"A", "B">>, <<"B", "A">>}

\* the tables after one negotiation was created and the signers of `order`
\* each contributed `text`
SealedRows(text, order) ==
    [i \in 1..Len(order) |->
        new_contribution(1, text, order[i], Sign(order[i], text))]

InitAuth ==
    \E text \in AuthTexts, order \in SignerOrders :
        /\ must_close(SealedRows(text, order))
        /\ negotiations = <<closed_negotiation(negotiation_row(1), SealedRows(text, order), 1)>>
        /\ contributions = SealedRows(text, order)
        /\ signings = signing_rows(1, SealedRows(text, order))
        /\ peers = <<>>
        /\ endpoints = <<>>
        /\ messages = <<>>
        /\ response = NoResponse

\* a consensus hash under which nothing was sealed
UnknownConsensus == hash_string(<<>>)

ByConsensus ==
    {[consensus_id |-> c, consensus_type |-> T_STRUCTURAL] :
        c \in {negotiations[n].consensus : n \in 1..Len(negotiations)} \cup {UnknownConsensus}}

BadByConsensus ==
    {EmptyDict, [consensus_type |-> T_STRUCTURAL],
     [consensus_id |-> UnknownConsensus, consensus_type |-> "other"]}

PeerRequests ==
    {[data |-> d, info |-> i, by_consensus |-> b] :
        d \in {PeerData, PeerDataNoOwners, PeerDataShort},
        i \in {PeerInfo, PeerInfoOther},
        b \in ByConsensus}
    \cup {[data |-> PeerData, by_consensus |-> b] : b \in ByConsensus}
    \cup {[data |-> PeerData, info |-> PeerInfo, by_consensus |-> b] : b \in BadByConsensus}

\* lines 222-223, 312-313, 339 and 356: what the views ask the authorizer
Authorize ==
    \E request_data \in PeerRequests :
        LET rc == require_by_consensus(request_data)
            hc == handle_consensus(rc.consensus_body, rc.consensus_id)
        IN  /\ response' =
                  IF rc.err /= Ok
                  THEN [op |-> "require_by_consensus", err |-> rc.err]
                  ELSE [op |-> "handle_consensus", request_data |-> request_data]
                          @@ hc
            /\ UNCHANGED <<negVars, cycleVars>>

OwnerLists == {<<>>, <<"A">>, <<"A", "B">>, <<"B", "A">>, <<"B">>}
SigningDicts == {[k \in ks |-> Sign(k, TextAccept)] : ks \in SUBSET Signers}

\* check_permission on any arguments
CheckPermission ==
    \E peer_id \in Signers, owners \in OwnerLists, signing_dict \in SigningDicts,
       request_peer_id \in {"A", "B", "C"} :
        /\ response' = [op |-> "check_permission",
                        err |-> check_permission(peer_id, owners, signing_dict, request_peer_id),
                        peer_id |-> peer_id, owners |-> owners,
                        signings |-> signing_dict, request_peer_id |-> request_peer_id]
        /\ UNCHANGED <<negVars, cycleVars>>

CreatePeer ==
    \E request_user \in Signers, request_data \in PeerRequests :
        PeerView_creation_logic(request_user, request_data)

NextAuth == Authorize \/ CheckPermission \/ CreatePeer

SpecAuth == InitAuth /\ [][NextAuth]_vars

(***************************************************************************)
(* Properties of the authorizer and the permission checker (SpecAuth).     *)
(***************************************************************************)
\* the negotiations sealed with a consensus hash
SealedWith(consensus_id) ==
    {n \in 1..Len(negotiations) :
        negotiations[n].status = DONE /\ negotiations[n].consensus = consensus_id}

\* the value a text gives for a top-level key, or `default`
Field(text, key, default) ==
    IF \E i \in 1..Len(text) : text[i][1] = key
    THEN text[CHOOSE i \in 1..Len(text) : text[i][1] = key][2]
    ELSE default

\* the written pairs say exactly what the dict says: same keys, same values
SameDocument(pairs, d) ==
    /\ {pairs[i][1] : i \in 1..Len(pairs)} = DOMAIN d
    /\ \A i \in 1..Len(pairs) : pairs[i][2] = d[pairs[i][1]]

\* the body {data, info} a request expects its consensus to carry
ExpectedStructure(request_data) ==
    [data |-> Get(request_data, "data", None), info |-> Get(request_data, "info", None)]

\* the signers recorded in the Signing rows of negotiation n
RecordedSigners(n) ==
    {signings[i].signer_key_id : i \in {j \in 1..Len(signings) : signings[j].negotiation = n}}

BodiesAgree(n, request_data) ==
    SameDocument(Field(negotiations[n].text, "body", <<>>), ExpectedStructure(request_data))

\* C4: handle_consensus fails with not-found when no negotiation is sealed
\* with the consensus hash; it refuses every consensus whose sealed body
\* differs from the request's {data, info} in a key or a value; and when it
\* returns, the bodies agree and what it returns is the signer -> signature
\* mapping of the sealed negotiation.
C4_RejectsOtherBodies ==
    response.op = "handle_consensus" =>
        LET request_data == response.request_data
            found == SealedWith(request_data.by_consensus.consensus_id)
        IN  /\ found = {} => response.err = "Http404"
            /\ \A n \in found :
                    ~BodiesAgree(n, request_data) => response.err = "different consensus texts"
            /\ response.err = Ok =>
                    \E n \in found :
                        /\ BodiesAgree(n, request_data)
                        /\ DOMAIN response.signings = RecordedSigners(n)
                        /\ \A k \in RecordedSigners(n) :
                                response.signings[k] = Sign(k, negotiations[n].text)

\* C4 witness: a consensus whose text writes the body with info before data
\* is accepted for the request with the same data and info.
C4_Witness ==
    /\ response.op = "handle_consensus" /\ response.err = Ok
    /\ Field(negotiations[1].text, "body", <<>>)[1][1] = "info"
    /\ DOMAIN response.signings = {"A", "B"}

\* C4 witness of the refusal: the sealed body has one more key than expected.
C4_WitnessRefused ==
    /\ response.op = "handle_consensus" /\ response.err = "different consensus texts"
    /\ Len(Field(negotiations[1].text, "body", <<>>)) = 3

MetaSigners(n) == Get(Field(negotiations[n].text, "meta", EmptyDict), "signers", <<>>)

NoRepeats(l) == \A i, j \in 1..Len(l) : l[i] = l[j] => i = j

\* the authorizer was asked for a sealed consensus whose body is the expected one
AuthorizedBody(n) ==
    /\ response.op = "handle_consensus"
    /\ n \in SealedWith(response.request_data.by_consensus.consensus_id)
    /\ BodiesAgree(n, response.request_data)

\* C5 as stated: with a non-empty meta.signers, authorize succeeds exactly
\* when the recorded signers and meta.signers are equal as sets.
C5_AsSets ==
    \A n \in 1..Len(negotiations) :
        (AuthorizedBody(n) /\ MetaSigners(n) /= <<>>) =>
            (response.err = Ok <=> RecordedSigners(n) = Range(MetaSigners(n)))

\* C5 (amended): with a non-empty meta.signers, authorize succeeds exactly
\* when meta.signers names every recorded signer once and nobody else, in
\* any order; a meta.signers that repeats an entry is refused.  With an
\* empty or absent meta.signers no signer check is applied.
C5_AsSortedLists ==
    \A n \in 1..Len(negotiations) :
        AuthorizedBody(n) =>
            IF MetaSigners(n) /= <<>>
            THEN /\ response.err = Ok <=>
                        /\ RecordedSigners(n) = Range(MetaSigners(n))
                        /\ NoRepeats(MetaSigners(n))
                 /\ response.err /= Ok => response.err = "no proper set of signatures"
            ELSE response.err = Ok

\* C5 witness: meta.signers lists B before A, both signed, and authorize
\* succeeds.
C5_Witness ==
    /\ AuthorizedBody(1) /\ response.err = Ok
    /\ MetaSigners(1) = <<"B", "A">>
    /\ RecordedSigners(1) = {"A", "B"}

PermissionRule(peer_id, owners, signers, request_peer_id) ==
    \/ /\ owners /= <<>>
       /\ request_peer_id \in Range(owners)
       /\ Range(owners) \subseteq signers
    \/ /\ owners = <<>>
       /\ request_peer_id = peer_id
       /\ request_peer_id \in signers

\* C6: check_permission succeeds exactly when the owners are non-empty, the
\* requester is one of them and every owner is a key of signings, or there
\* are no owners, the requester is the subject and is a key of signings; so
\* never with empty signings.  Every peer that was created is one whose
\* creation the requester was allowed to ask for and all its owners signed.
C6_PermissionRule ==
    /\ response.op = "check_permission" =>
            /\ response.err = Ok <=>
                    PermissionRule(response.peer_id, response.owners,
                                   DOMAIN response.signings, response.request_peer_id)
            /\ DOMAIN response.signings = {} => response.err /= Ok
    /\ (response.op = "peer" /\ response.err = Ok) =>
            LET data == response.request_data.data
            IN  \E n \in SealedWith(response.request_data.by_consensus.consensus_id) :
                    PermissionRule(data.peer_id, data.owners, RecordedSigners(n),
                                   response.request_user)
    /\ \A i \in 1..Len(peers) :
            \E n \in SealedWith(peers[i].consensus_log[1]) :
                Range(peers[i].owners) \subseteq RecordedSigners(n)

\* C6 witness: the creation of a peer with owners A and B, asked by A under a
\* consensus that only A signed, has just been refused.
C6_Witness ==
    /\ response.op = "peer" /\ response.err = "owner has not signed"
    /\ response.request_data.data.owners = <<"A", "B">>
    /\ response.request_user = "A"
    /\ RecordedSigners(1) = {"A"}
    /\ peers = <<>>

\* C6 witness of the other side: a peer with two owners exists.
C6_WitnessCreated ==
    /\ Len(peers) = 1 /\ peers[1].owners = <<"A", "B">>
    /\ RecordedSigners(1) = {"A", "B"}

(***************************************************************************)
(* The endpoint cycle (specification SpecCycle).  A self-governing peer A  *)
(* is registered and has opened endpoint F.  With the negotiation engine   *)
(* the peer has had sealed: the creation of a second endpoint E, not yet   *)
(* asked for; a request to close E with some list of message hashes; and a *)
(* request to process E, prepared either against the consensus that closes *)
(* E or against the one that opens it.  Messages are submitted to the      *)
(* boxes of both endpoints and the sealed requests are asked for, by the   *)
(* peer and by others, in any order and any number of times.               *)
(***************************************************************************)
MaxMessages == 3

EndpointData(endpoint_id) ==
    [endpoint_id |-> endpoint_id, peer_id |-> "A", status |-> OPEN,
     size_min |-> 1, size_max |-> 2]
EndpointInfo == GoodInfo("create", "endpoint")

\* the text a peer proposes to have a request agreed
AcceptedText(data, info) ==
    MkText(get_requested_consensus_body([data |-> data, info |-> info]), [accept |-> TRUE])

\* the rows of negotiation n after it was created and the peer contributed
\* text, which seals it
PeerContribution(n, text) == new_contribution(n, text, "A", Sign("A", text))
SealedByPeer(n, text) ==
    closed_negotiation(negotiation_row(n), <<PeerContribution(n, text)>>, 1)

\* a list of message hashes as a request carries it
Hashes(l) == [i \in 1..Len(l) |-> [hash |-> l[i]]]

\* what the peer has had sealed for E: the hash list of the close request,
\* the hash list of the process request, and whether the process request
\* was prepared against the consensus that closes E
Plan(close_hashes, process_hashes, after_close) ==
    [close_hashes |-> Hashes(close_hashes), process_hashes |-> Hashes(process_hashes),
     after_close |-> after_close]

Plans ==
    {Plan(<<HashOne>>, <<HashOne>>, TRUE),
     Plan(<<HashOne>>, <<>>, FALSE),
     Plan(<<>>, <<>>, TRUE),
     Plan(<<HashOne, HashOne>>, <<HashOne, HashNone>>, TRUE),
     Plan(<<HashOne, HashNone>>, <<HashOne>>, TRUE),
     Plan(<<HashOne, HashTwo>>, <<HashTwo, HashOne>>, TRUE),
     Plan(<<HashTwo, HashOne>>, <<HashOne, HashOne>>, TRUE),
     Plan(<<HashOne, HashTwo, HashOne>>, <<HashOne>>, FALSE)}

\* a plan in which the peer has had a second process request sealed, with
\* the hash list again_hashes, prepared against the consensus of the first
Again(plan, again_hashes) == [again_hashes |-> Hashes(again_hashes)] @@ plan

PlansAgain == {Again(Plan(<<HashOne>>, <<HashOne>>, TRUE), <<>>)}

CloseData(message_hashes) == [status |-> CLOSED, message_hashes |-> message_hashes]
ProcessData(message_hashes) ==
    [status |-> PROCESSED, message_hashes |-> message_hashes, process_proof |-> "proof"]

UpdateInfo(id, on_last_consensus_id) ==
    [operation |-> "partial_update", resource |-> "endpoint", id |-> id,
     on_last_consensus_id |-> on_last_consensus_id]

PeerText == AcceptedText(PeerDataNoOwners, PeerInfo)
EndpointText(endpoint_id) == AcceptedText(EndpointData(endpoint_id), EndpointInfo)
CloseText(message_hashes) ==
    AcceptedText(CloseData(message_hashes), UpdateInfo("E", SealedByPeer(2, EndpointText("E")).consensus))
ProcessText(message_hashes, on_last_consensus_id) ==
    AcceptedText(ProcessData(message_hashes), UpdateInfo("E", on_last_consensus_id))

\* the texts of the sealed negotiations: five, and a sixth if the plan has
\* a second process request
InitTexts(plan) ==
    LET process == ProcessText(plan.process_hashes,
                               IF plan.after_close
                               THEN SealedByPeer(4, CloseText(plan.close_hashes)).consensus
                               ELSE SealedByPeer(2, EndpointText("E")).consensus)
    IN  <<PeerText, EndpointText("E"), EndpointText("F"), CloseText(plan.close_hashes),
          process>>
        \o IF "again_hashes" \in DOMAIN plan
           THEN <<ProcessText(plan.again_hashes, SealedByPeer(5, process).consensus)>>
           ELSE <<>>

InitCycle ==
    \E plan \in Plans \cup PlansAgain :
        LET texts == InitTexts(plan)
        IN  /\ negotiations = [n \in 1..Len(texts) |-> SealedByPeer(n, texts[n])]
            /\ contributions = [n \in 1..Len(texts) |-> PeerContribution(n, texts[n])]
            /\ signings = [n \in 1..Len(texts) |->
                              signing_rows(n, <<PeerContribution(n, texts[n])>>)[1]]
            /\ peers = <<peer_row(PeerDataNoOwners, SealedByPeer(1, PeerText).consensus)>>
            /\ endpoints = <<endpoint_row(EndpointData("F"),
                                          SealedByPeer(3, EndpointText("F")).consensus)>>
            /\ messages = <<>>
            /\ response = NoResponse

Structural(consensus_id) ==
    [consensus_id |-> consensus_id, consensus_type |-> T_STRUCTURAL]

\* the request a sealed text agrees on, asked for under a consensus id
AgreedRequest(text, consensus_id) ==
    LET body == from_canonical(text).body
    IN  [data |-> body.data, info |-> body.info, by_consensus |-> Structural(consensus_id)]

\* the update calls: each sealed update under its own consensus id by the
\* peer; the close by another user, and on the other endpoint; under the consensus id of
\* another negotiation; and requests that name no consensus or no last id
UpdateCalls ==
    {[request_user |-> "A", endpoint_id |-> "E",
      request_data |-> AgreedRequest(negotiations[n].text, negotiations[n].consensus)] :
        n \in 4..Len(negotiations)}
    \cup {[request_user |-> c[1], endpoint_id |-> c[2],
           request_data |-> AgreedRequest(negotiations[4].text, negotiations[4].consensus)] :
        c \in {<<"B", "E">>, <<"A", "F">>}}
    \cup {[request_user |-> "A", endpoint_id |-> "E",
           request_data |-> AgreedRequest(negotiations[n].text, negotiations[1].consensus)] :
             n \in {4, 5}}
    \cup {[request_user |-> "A", endpoint_id |-> "E", request_data |-> r] :
             r \in {[data |-> CloseData(<<>>),
                     info |-> UpdateInfo("E", negotiations[2].consensus)],
                    [data |-> CloseData(<<>>),
                     info |-> GoodInfo("partial_update", "endpoint"),
                     by_consensus |-> Structural(negotiations[4].consensus)]}}

MessageData(message, endpoint_id, box) ==
    [text |-> message.text, sender |-> message.sender, recipient |-> message.recipient,
     endpoint_id |-> endpoint_id, box |-> box]

MessageInfo == GoodInfo("create", "message")

\* the message submissions: to the inbox and the process box of E and to
\* the inbox of F; by another user than the peer; to a box that takes no
\* submissions, or to none; with a hash that is not the message's
MessageCalls ==
    {[request_user |-> "A",
      request_data |-> [data |-> MessageData(m, "E", box), info |-> MessageInfo]] :
        m \in {MessageOne, MessageTwo}, box \in {INBOX, PROCESSBOX}}
    \cup {[request_user |-> u,
           request_data |-> [data |-> MessageData(MessageOne, id, box), info |-> MessageInfo]] :
        u \in {"A"}, id \in {"F"}, box \in {INBOX}}
    \cup {[request_user |-> u,
           request_data |-> [data |-> MessageData(MessageOne, id, box), info |-> MessageInfo]] :
        u \in {"B"}, id \in {"E"}, box \in {PROCESSBOX}}
    \cup {[request_user |-> u,
           request_data |-> [data |-> MessageData(MessageOne, id, box), info |-> MessageInfo]] :
        u \in {"A"}, id \in {"E"}, box \in {ACCEPTED, OUTBOX}}
    \cup {[request_user |-> "A", request_data |->
            [data |-> [text |-> MessageOne.text, sender |-> MessageOne.sender,
                       recipient |-> MessageOne.recipient, endpoint_id |-> "E"],
             info |-> MessageInfo]]}
    \cup {[request_user |-> "A", request_data |->
            [data |-> [message_hash |-> h] @@ MessageData(MessageOne, "E", INBOX),
             info |-> MessageInfo]] : h \in {HashTwo}}

\* the endpoint creations asked for: E as agreed, F again, and E under the
\* agreement on F
EndpointCalls ==
    {[request_user |-> "A", request_data |->
        [data |-> EndpointData(c[1]), info |-> EndpointInfo,
         by_consensus |-> Structural(negotiations[c[2]].consensus)]] :
            c \in {<<"E", 2>>, <<"F", 3>>, <<"E", 3>>}}

CreateEndpoint ==
    \E call \in EndpointCalls :
        EndpointView_creation_logic(call.request_user, call.request_data)

Admit ==
    \E call \in MessageCalls :
        /\ MessageView_creation_logic(call.request_user, call.request_data)
        /\ Len(messages') <= MaxMessages

\* the view looks the endpoint of the URL up, or answers 404
Update ==
    \E call \in UpdateCalls :
        /\ endpoint_index(call.endpoint_id) /= 0
        /\ EndpointView_partial_update_logic(call.request_user, call.request_data,
                                             endpoint_index(call.endpoint_id))

NextCycle == CreateEndpoint \/ Admit \/ Update

SpecCycle == InitCycle /\ [][NextCycle]_vars

(***************************************************************************)
(* Properties of the endpoint cycle (specification SpecCycle).             *)
(***************************************************************************)
\* the response to a partial update that asks for status `status`
UpdateAsked(r, status) ==
    /\ r.op = "endpoint_update"
    /\ Get(r.request_data.data, "status", "None") = status

\* the request was let through to close_endpoint: it returned, or raised
\* one of the errors of close_endpoint
CloseCalled(r) ==
    /\ UpdateAsked(r, CLOSED)
    /\ r.err \in {Ok, "wrong current state", "message count mismatch",
                  "Didn't reach min size", "Too many messages"}

\* the messages of the endpoint in box INBOX that a hash of the list names
ResolvedInbox(endpoint_id, message_hashes) ==
    {i \in 1..Len(messages) :
        /\ messages[i].endpoint_id = endpoint_id
        /\ messages[i].box = INBOX
        /\ \E k \in 1..Len(message_hashes) : message_hashes[k].hash = messages[i].message_hash}

\* every hash of the list is the hash of an INBOX message of the endpoint
EveryHashResolves(endpoint_id, message_hashes) ==
    \A k \in 1..Len(message_hashes) :
        \E i \in 1..Len(messages) :
            /\ messages[i].endpoint_id = endpoint_id
            /\ messages[i].box = INBOX
            /\ messages[i].message_hash = message_hashes[k].hash

\* the call was refused and the endpoints and the messages are as before
RefusedUnchanged(r) ==
    /\ r.err /= Ok
    /\ endpoints' = endpoints
    /\ messages' = messages

\* the close succeeded: the endpoint is CLOSED and the matched messages ACCEPTED
Closed(r, e, matched) ==
    /\ r.err = Ok
    /\ endpoints'[e].status = CLOSED
    /\ \A i \in matched : messages'[i].box = ACCEPTED

\* what C7 says of one step, the second half under the condition `counted`
CloseRule(counted(_, _)) ==
    LET r == response'
        e == r.endpoint
        message_hashes == r.request_data.data.message_hashes
        matched == ResolvedInbox(endpoints[e].endpoint_id, message_hashes)
        count == Cardinality(matched)
        within == endpoints[e].size_min <= count /\ count <= endpoints[e].size_max
    IN  UpdateAsked(r, CLOSED) =>
            /\ ~within => RefusedUnchanged(r)
            /\ ( /\ CloseCalled(r)
                 /\ endpoints[e].status = OPEN
                 /\ within
                 /\ EveryHashResolves(endpoints[e].endpoint_id, message_hashes)
                 /\ counted(count, message_hashes) )
               => Closed(r, e, matched)

\* C7 as stated: a close is refused, and changes nothing, whenever the
\* number of INBOX messages its hashes resolve to is below size_min or above
\* size_max; when the number is within the bounds and every hash resolves,
\* the close succeeds, the matched messages become ACCEPTED and the endpoint
\* CLOSED.
C7_ClosesWhenEveryHashResolves ==
    [][CloseRule(LAMBDA count, message_hashes : TRUE)]_vars

\* C7, as far as close_endpoint goes: a close is refused, and changes
\* nothing, whenever the number of INBOX messages its hashes resolve to is
\* below size_min or above size_max; when the number is within the bounds,
\* every hash resolves and the number of resolved messages is the length of
\* the submitted list, the close succeeds, the matched messages become
\* ACCEPTED and the endpoint CLOSED.
C7_ClosesWhenCountsMatch ==
    [][CloseRule(LAMBDA count, message_hashes : count = Len(message_hashes))]_vars

\* a close has succeeded and has moved a message to ACCEPTED
C7_Witness ==
    /\ UpdateAsked(response, CLOSED)
    /\ response.err = Ok
    /\ endpoints[response.endpoint].status = CLOSED
    /\ \E i \in 1..Len(messages) :
            /\ messages[i].endpoint_id = endpoints[response.endpoint].endpoint_id
            /\ messages[i].box = ACCEPTED

\* a close was refused for resolving to fewer messages than size_min
C7_WitnessBelow ==
    /\ CloseCalled(response)
    /\ response.err = "Didn't reach min size"

\* a close was refused for resolving to more messages than size_max
C7_WitnessAbove ==
    /\ CloseCalled(response)
    /\ response.err = "Too many messages"
    /\ endpoints[response.endpoint].status = OPEN

\* a close was refused though each of its hashes resolves and the number of
\* resolved messages is within the bounds
C7_WitnessMismatch ==
    /\ CloseCalled(response)
    /\ response.err = "message count mismatch"
    /\ LET id == endpoints[response.endpoint].endpoint_id
           message_hashes == response.request_data.data.message_hashes
           count == Cardinality(ResolvedInbox(id, message_hashes))
       IN  /\ EveryHashResolves(id, message_hashes)
           /\ endpoints[response.endpoint].size_min <= count
           /\ count <= endpoints[response.endpoint].size_max

\* C8: a close must be refused, and change nothing, if some hash of the
\* submitted list is the hash of no message of the endpoint in box INBOX.
C8_RejectsUnresolvedHash ==
    [][LET r == response'
           e == r.endpoint
       IN  ( /\ UpdateAsked(r, CLOSED)
             /\ ~EveryHashResolves(endpoints[e].endpoint_id,
                                   r.request_data.data.message_hashes) )
           => RefusedUnchanged(r)]_vars

\* C9: the only box changes are INBOX to ACCEPTED, by a close that succeeds,
\* and PROCESSBOX to OUTBOX, by a process that succeeds; a message in
\* ACCEPTED or OUTBOX stays there, no message is removed or otherwise
\* rewritten, and a message enters in INBOX or PROCESSBOX.
C9_BoxesMonotonic ==
    [][/\ Len(messages') >= Len(messages)
       /\ \A i \in 1..Len(messages) :
            \/ messages'[i] = messages[i]
            \/ /\ messages'[i] = [messages[i] EXCEPT !.box = messages'[i].box]
               /\ \/ /\ messages[i].box = INBOX
                     /\ messages'[i].box = ACCEPTED
                     /\ UpdateAsked(response', CLOSED)
                     /\ response'.err = Ok
                  \/ /\ messages[i].box = PROCESSBOX
                     /\ messages'[i].box = OUTBOX
                     /\ UpdateAsked(response', PROCESSED)
                     /\ response'.err = Ok
       /\ \A i \in (Len(messages) + 1)..Len(messages') :
            messages'[i].box \in {INBOX, PROCESSBOX}]_vars

\* a close has moved a message to ACCEPTED and a process one to OUTBOX
C9_Witness ==
    /\ \E i \in 1..Len(messages) : messages[i].box = ACCEPTED
    /\ \E i \in 1..Len(messages) : messages[i].box = OUTBOX

\* C10: an endpoint whose status becomes PROCESSED had status CLOSED; it
\* never gets there from OPEN.
C10_ProcessedOnlyFromClosed ==
    [][\A e \in 1..Len(endpoints) :
            (endpoints'[e].status = PROCESSED /\ endpoints[e].status /= PROCESSED)
                => endpoints[e].status = CLOSED]_vars

\* C11: once an endpoint is PROCESSED no close and no process succeeds on it,
\* and its status, inbox hash, outbox hash and process proof stay as they are.
C11_ProcessedIsTerminal ==
    [][\A e \in 1..Len(endpoints) :
            endpoints[e].status = PROCESSED =>
                /\ endpoints'[e].status = PROCESSED
                /\ endpoints'[e].inbox_hash = endpoints[e].inbox_hash
                /\ endpoints'[e].outbox_hash = endpoints[e].outbox_hash
                /\ endpoints'[e].process_proof = endpoints[e].process_proof
                /\ (response'.op = "endpoint_update" /\ response'.endpoint = e)
                    => response'.err /= Ok]_vars

\* the message a submission asks for, and the endpoint it names
Submitted(r) == r.request_data.data
SubmittedBox(r) == Get(Submitted(r), "box", "None")
SubmittedTo(r) == endpoint_index(Get(Submitted(r), "endpoint_id", "None"))

\* C12: a message is admitted to INBOX only while its endpoint is OPEN and to
\* PROCESSBOX only while it is CLOSED, never to another box or to none; an
\* admission that is refused creates no message, and nothing but an
\* admission creates one.
C12_AdmissionGated ==
    [][/\ response'.op = "message" =>
            IF response'.err = Ok
            THEN /\ SubmittedTo(response') /= 0
                 /\ \/ /\ SubmittedBox(response') = INBOX
                       /\ endpoints[SubmittedTo(response')].status = OPEN
                    \/ /\ SubmittedBox(response') = PROCESSBOX
                       /\ endpoints[SubmittedTo(response')].status = CLOSED
                 /\ Len(messages') = Len(messages) + 1
                 /\ messages'[Len(messages')].box = SubmittedBox(response')
            ELSE messages' = messages
       /\ Len(messages') /= Len(messages) => (response'.op = "message" /\ response'.err = Ok)
      ]_vars

\* a PROCESSBOX message was submitted to an OPEN endpoint and refused
C12_Witness ==
    /\ response.op = "message"
    /\ response.err /= Ok
    /\ SubmittedBox(response) = PROCESSBOX
    /\ SubmittedTo(response) /= 0
    /\ endpoints[SubmittedTo(response)].status = OPEN

\* messages were admitted to INBOX and to PROCESSBOX
C12_WitnessAdmitted ==
    /\ \E i \in 1..Len(messages) : messages[i].box = INBOX
    /\ \E i \in 1..Len(messages) : messages[i].box = PROCESSBOX

\* a submission to OUTBOX and one to no box were refused
C12_WitnessOtherBox ==
    /\ response.op = "message"
    /\ response.err = "can't post to box"
    /\ SubmittedBox(response) \in {OUTBOX, "None"}

\* C13: a message is admitted to PROCESSBOX only if the user who submits it
\* is the peer of the endpoint or one of the owners of that peer.
C13_ProcessBoxByOwner ==
    [][(response'.op = "message" /\ response'.err = Ok
            /\ SubmittedBox(response') = PROCESSBOX)
        => check_is_owner(endpoints[SubmittedTo(response')], response'.request_user)]_vars

\* the consensus id an endpoint row recorded last
LastRecorded(endpoint) == endpoint.consensus_log[Len(endpoint.consensus_log)]

\* the request names the consensus id the endpoint recorded last
OnLast(r) ==
    LET info == Get(r.request_data, "info", EmptyDict)
    IN  /\ "on_last_consensus_id" \in DOMAIN info
        /\ info.on_last_consensus_id = LastRecorded(endpoints[r.endpoint])

\* C14: a partial update is applied only if info.on_last_consensus_id is
\* there and is the consensus id the endpoint recorded last; an update that
\* is applied records the consensus id that authorized it as the last one;
\* any other update is refused and changes no endpoint and no message.
C14_OnLastConsensus ==
    [][response'.op = "endpoint_update" =>
            IF response'.err = Ok
            THEN /\ OnLast(response')
                 /\ LastRecorded(endpoints'[response'.endpoint])
                        = response'.request_data.by_consensus.consensus_id
                 /\ Len(endpoints'[response'.endpoint].consensus_log)
                        = Len(endpoints[response'.endpoint].consensus_log) + 1
            ELSE RefusedUnchanged(response')]_vars

\* an update prepared against an id the endpoint recorded earlier was
\* refused, after another update had been applied
C14_Witness ==
    /\ response.op = "endpoint_update"
    /\ response.err = "condition on consensus_id failed"
    /\ LET log == endpoints[response.endpoint].consensus_log
       IN  /\ Len(log) >= 2
           /\ \E k \in 1..(Len(log) - 1) :
                log[k] = response.request_data.info.on_last_consensus_id


C16_OneCloseOneProcess ==
    [][/\ (UpdateAsked(response', CLOSED) /\ response'.err = Ok)
            => endpoints[response'.endpoint].status \notin {CLOSED, PROCESSED}
       /\ (UpdateAsked(response', PROCESSED) /\ response'.err = Ok)
            => endpoints[response'.endpoint].status /= PROCESSED
       /\ \A i \in 1..Len(messages) :
            messages[i].box \in {ACCEPTED, OUTBOX} => messages'[i] = messages[i]
      ]_vars


(***************************************************************************)
(* compute_messages_hash on its own: two lists of hashes are drawn and the *)
(* function is applied to both.                                            *)
(***************************************************************************)
MaxHashes == 3

HashLists ==
    UNION {[1..len -> {HashNone, HashOne, HashTwo}] : len \in 0..MaxHashes}

InitHash ==
    /\ negotiations = <<>>
    /\ contributions = <<>>
    /\ signings = <<>>
    /\ peers = <<>>
    /\ endpoints = <<>>
    /\ messages = <<>>
    /\ \E msg_hashes \in HashLists, other_hashes \in HashLists :
            response = [op |-> "none", err |-> Ok,
                        msg_hashes |-> msg_hashes, other_hashes |-> other_hashes]

ComputeHashes ==
    /\ response.op = "none"
    /\ response' = [op |-> "compute_messages_hash", err |-> Ok,
                    msg_hashes |-> response.msg_hashes,
                    other_hashes |-> response.other_hashes,
                    messages_hash |-> compute_messages_hash(response.msg_hashes),
                    other_messages_hash |-> compute_messages_hash(response.other_hashes)]
    /\ UNCHANGED <<negVars, cycleVars>>

NextHash == ComputeHashes

SpecHash == InitHash /\ [][NextHash]_vars

\* the place of a hash in the order of the digests
hash_rank(h) == CHOOSE i \in 1..Len(HashOrder) : HashOrder[i] = h

\* what a digest was computed over
Digested(digest) == digest[2]

(***************************************************************************)
(* C17: compute_messages_hash gives two lists with the same distinct       *)
(* hashes the same value, whatever their order and their repeated entries, *)
(* and the value is the digest of the distinct hashes in sorted order.     *)
(***************************************************************************)
C17_OrderAndDuplicatesIgnored ==
    response.op = "compute_messages_hash" =>
        LET over == Digested(response.messages_hash)
        IN  /\ Range(response.msg_hashes) = Range(response.other_hashes)
                    => response.messages_hash = response.other_messages_hash
            /\ response.messages_hash = hash_string(over)
            /\ Range(over) = Range(response.msg_hashes)
            /\ \A i \in 1..Len(over), j \in 1..Len(over) :
                    i < j => hash_rank(over[i]) < hash_rank(over[j])

\* the hash of [a, b, a] and the hash of [b, a] were computed
C17_Witness ==
    /\ response.op = "compute_messages_hash"
    /\ response.msg_hashes = <<HashTwo, HashOne, HashTwo>>
    /\ response.other_hashes = <<HashOne, HashTwo>>


(***************************************************************************)
(* C18: on the same endpoint and the same messages, a close gives the same *)
(* result for two hash lists with the same distinct hashes, whatever their *)
(* order and their repeated entries: both are refused, or both succeed     *)
(* with the same inbox hash and the same messages moved; and likewise a    *)
(* process.                                                                *)
(***************************************************************************)
C18_SameHashesSameOutcome ==
    \A e \in 1..Len(endpoints) : \A l1 \in HashLists, l2 \in HashLists :
        Range(l1) = Range(l2) =>
            /\ LET one == close_endpoint(endpoints[e], CloseData(Hashes(l1)))
                   two == close_endpoint(endpoints[e], CloseData(Hashes(l2)))
               IN  IF one.err = Ok THEN two = one ELSE two.err /= Ok
            /\ LET one == record_endpoint_process(endpoints[e], ProcessData(Hashes(l1)))
                   two == record_endpoint_process(endpoints[e], ProcessData(Hashes(l2)))
               IN  IF one.err = Ok THEN two = one ELSE two.err /= Ok



(***************************************************************************)
(* C19: a DONE negotiation has exactly one Signing per signer that had a   *)
(* latest contribution when it was sealed; the signature of each Signing   *)
(* is that signer's signature over the sealed text; and the signature of a *)
(* superseded contribution over another text is in no Signing.  (No        *)
(* contribution is taken once the negotiation is DONE, so its latest       *)
(* contributions stay the ones of the sealing.)                            *)
(***************************************************************************)
C19_SigningsAreLatestSigners ==
    \A n \in 1..Len(negotiations) :
        negotiations[n].status = DONE =>
            LET rows == SigningsOf(signings, n)
                latests == get_latest_contributions(contributions, n)
            IN  /\ {rows[i].signer_key_id : i \in 1..Len(rows)}
                        = {latests[i].signer_key_id : i \in 1..Len(latests)}
                /\ \A i \in 1..Len(rows), j \in 1..Len(rows) :
                        rows[i].signer_key_id = rows[j].signer_key_id => i = j
                /\ \A i \in 1..Len(rows) :
                        rows[i].signature = Sign(rows[i].signer_key_id, negotiations[n].text)
                /\ \A c \in Range(ContributionsOf(contributions, n)) :
                        (~c.latest /\ c.text /= negotiations[n].text)
                            => \A i \in 1..Len(rows) : rows[i].signature /= c.signature

\* a negotiation was sealed by two signers, one of whom had first
\* contributed another text
C19_Witness ==
    \E n \in 1..Len(negotiations) :
        /\ negotiations[n].status = DONE
        /\ Len(SigningsOf(signings, n)) = 2
        /\ \E c \in Range(ContributionsOf(contributions, n)) : ~c.latest /\ c.text /= negotiations[n].text


\* the consensus id a request names, if it names one
NamedConsensus(r) ==
    Get(Get(r.request_data, "by_consensus", EmptyDict), "consensus_id", NoConsensus)

\* the request is, data, info and consensus id, the one a negotiation sealed
SealedRequest(r) ==
    \E n \in 1..Len(negotiations) :
        /\ negotiations[n].status = DONE
        /\ r.request_data = AgreedRequest(negotiations[n].text, negotiations[n].consensus)

(***************************************************************************)
(* C20: a sealed consensus authorizes at most one transition of an         *)
(* endpoint: a partial update that names a consensus id the endpoint has   *)
(* already recorded is refused and changes nothing; when it is the sealed  *)
(* request itself, submitted again, it is refused with "condition on       *)
(* consensus_id failed", the last recorded id no longer being the one      *)
(* fixed in the sealed body.                                               *)
(***************************************************************************)
C20_ConsensusAuthorizesOnce ==
    [][(/\ response'.op = "endpoint_update"
        /\ \E k \in 1..Len(endpoints[response'.endpoint].consensus_log) :
                endpoints[response'.endpoint].consensus_log[k] = NamedConsensus(response'))
            => /\ RefusedUnchanged(response')
               /\ SealedRequest(response')
                    => response'.err = "condition on consensus_id failed"]_vars

\* the request that was applied last is submitted again by the peer and is
\* refused
C20_Witness ==
    /\ response.op = "endpoint_update"
    /\ response.err = "condition on consensus_id failed"
    /\ response.request_user = "A"
    /\ SealedRequest(response)
    /\ Len(endpoints[response.endpoint].consensus_log) >= 2
    /\ NamedConsensus(response) = LastRecorded(endpoints[response.endpoint])

====
